---- MODULE Spec2Model ----
(***************************************************************************)
(* vue-to-acf (src/index.js): converts the props of a Vue component into   *)
(* an ACF field-group JSON document.                                       *)
(*                                                                         *)
(* JavaScript strings that the code inspects character by character        *)
(* (prop names, prop types, the component name, keys, labels) are          *)
(* sequences of one-character strings, so that startsWith, toLowerCase,    *)
(* toUpperCase, slice and the regular-expression replace are computed.     *)
(* String literals the code only returns or compares whole (field type     *)
(* tags, auxiliary settings) are TLA+ strings.                             *)
(***************************************************************************)
EXTENDS Integers, Sequences, FiniteSets, TLC

VARIABLES
    pc,         \* position of parseComponent's callback chain
    destDir,    \* state of the destination folder on disk
    destFile,   \* state of ${destFolder}${groupKey}.json on disk
    component,  \* what Vuedoc.parse resolved with
    groupKey,   \* const groupKey
    fields,     \* const fields = []
    config,     \* const config (<<>> until it is built)
    log,        \* messages printed on the console, in order
    events,     \* the stages the run has entered and their outcomes, in order
    before,     \* destDir and destFile as they were when the run started
    prop,       \* argument of a direct call of getAcfFieldType/getAcfFieldConfig
    string,     \* argument of a direct call of snakeCaseToWords
    call,       \* which function was called directly ("none" before the call)
    ret         \* what the direct call returned

vars == <<pc, destDir, destFile, component, groupKey, fields, config, log,
          events, before, prop, string, call, ret>>

pipelineVars == <<pc, destDir, destFile, component, groupKey, fields, config,
                  log, events, before>>

callVars == <<prop, string, call, ret>>

----------------------------------------------------------------------------
(* Bounds *)

MaxProps == 2

MaxLen == 4

----------------------------------------------------------------------------
(* JavaScript string primitives *)

LowerLetters ==
    <<"a","b","c","d","e","f","g","h","i","j","k","l","m",
      "n","o","p","q","r","s","t","u","v","w","x","y","z">>

UpperLetters ==
    <<"A","B","C","D","E","F","G","H","I","J","K","L","M",
      "N","O","P","Q","R","S","T","U","V","W","X","Y","Z">>

Digits == <<"0","1","2","3","4","5","6","7","8","9">>

Range(s) == { s[i] : i \in 1..Len(s) }

toLowerCaseChar(c) ==
    IF \E i \in 1..26 : UpperLetters[i] = c
    THEN LowerLetters[CHOOSE i \in 1..26 : UpperLetters[i] = c]
    ELSE c

toUpperCaseChar(c) ==
    IF \E i \in 1..26 : LowerLetters[i] = c
    THEN UpperLetters[CHOOSE i \in 1..26 : LowerLetters[i] = c]
    ELSE c

toLowerCase(s) == [i \in 1..Len(s) |-> toLowerCaseChar(s[i])]

toUpperCase(s) == [i \in 1..Len(s) |-> toUpperCaseChar(s[i])]

\* string.charAt(0): the first character, or "" when there is none
charAt0(s) == IF Len(s) = 0 THEN <<>> ELSE <<s[1]>>

\* string.slice(1)
slice1(s) == IF Len(s) = 0 THEN <<>> ELSE SubSeq(s, 2, Len(s))

\* lodash startsWith(string, target)
startsWith(s, target) ==
    /\ Len(s) >= Len(target)
    /\ SubSeq(s, 1, Len(target)) = target

----------------------------------------------------------------------------
(* String literals of the source *)

Str_image == <<"i","m","a","g","e">>
Str_button == <<"b","u","t","t","o","n">>
Str_body == <<"b","o","d","y">>
Str_align == <<"a","l","i","g","n">>
Str_halign == <<"h","a","l","i","g","n">>
Str_valign == <<"v","a","l","i","g","n">>
Str_text_align == <<"t","e","x","t","-","a","l","i","g","n">>
Str_buttons == <<"b","u","t","t","o","n","s">>
Str_images == <<"i","m","a","g","e","s">>
Str_string == <<"s","t","r","i","n","g">>
Str_boolean == <<"b","o","o","l","e","a","n">>
Str_number == <<"n","u","m","b","e","r">>
Str_array == <<"a","r","r","a","y">>
Str_group_ == <<"g","r","o","u","p","_">>
Str__component == <<"_","c","o","m","p","o","n","e","n","t">>
Str_Component_ == <<"C","o","m","p","o","n","e","n","t",":"," ">>

\* the value of a missing entry of an object literal
Undefined == "undefined"

----------------------------------------------------------------------------
(* snakeCaseToWords *)

RegexFirstClass_NoDigits(c) == c \in Range(LowerLetters)

\* the class [a-z0-9] of the pattern
RegexFirstClass(c) == c \in Range(LowerLetters) \cup Range(Digits)

\* the class [A-Z] of the pattern
RegexSecondClass(c) == c \in Range(UpperLetters)

\* string.replace(/([a-z0-9])([A-Z])/g, '$1 $2'): the matches are found left
\* to right, each search resuming after the end of the previous match.
RECURSIVE replaceFrom(_, _)
replaceFrom(s, i) ==
    IF i > Len(s) THEN <<>>
    ELSE IF /\ i + 1 <= Len(s)
            /\ RegexFirstClass(s[i])
            /\ RegexSecondClass(s[i + 1])
         THEN <<s[i], " ", s[i + 1]>> \o replaceFrom(s, i + 2)
         ELSE <<s[i]>> \o replaceFrom(s, i + 1)

snakeCaseToWords(str) ==
    LET capitalized == toUpperCase(charAt0(str)) \o slice1(str)
    IN  replaceFrom(capitalized, 1)

----------------------------------------------------------------------------
(* getAcfFieldType *)

\* the object literal indexed by prop.type.toLowerCase()
typeTable(key) ==
    IF key = Str_string THEN "text"
    ELSE IF key = Str_boolean THEN "true_false"
    ELSE IF key = Str_number THEN "number"
    ELSE IF key = Str_array THEN "repeater"
    ELSE Undefined

typeKey_CaseSensitive(type) == type

typeKey(type) == toLowerCase(type)

getAcfFieldType_ExactImage(p) ==
    IF p.name = Str_image THEN "image"
    ELSE IF p.name = Str_button THEN "acfe_advanced_link"
    ELSE IF p.name = Str_body THEN "wysiwyg"
    ELSE IF \/ p.name = Str_align
            \/ p.name = Str_halign
            \/ p.name = Str_valign
            \/ p.name = Str_text_align
         THEN "button_group"
    ELSE IF p.name = Str_buttons THEN "repeater"
    ELSE IF p.name = Str_images THEN "gallery"
    ELSE typeTable(typeKey(p.type))

getAcfFieldType(p) ==
    IF startsWith(p.name, Str_image) THEN "image"
    ELSE IF p.name = Str_button THEN "acfe_advanced_link"
    ELSE IF p.name = Str_body THEN "wysiwyg"
    ELSE IF \/ p.name = Str_align
            \/ p.name = Str_halign
            \/ p.name = Str_valign
            \/ p.name = Str_text_align
         THEN "button_group"
    ELSE IF p.name = Str_buttons THEN "repeater"
    ELSE IF p.name = Str_images THEN "gallery"
    ELSE typeTable(typeKey(p.type))

----------------------------------------------------------------------------
(* getAcfFieldConfig *)

\* let extra = {}
EmptyObject == [k \in {} |-> Undefined]

\* { ...a, ...b }: the keys of b win
Spread(a, b) == b @@ a

ValignChoices == [start |-> "Top", center |-> "Center", end |-> "Bottom"]

AlignChoices == [left |-> "Left", center |-> "Center", right |-> "Right"]

isAlignName_NoHalign(name) == name = Str_text_align \/ name = Str_align

\* name === 'text-align' || name === 'halign' || name === 'align'
isAlignName(name) ==
    name = Str_text_align \/ name = Str_halign \/ name = Str_align

getAcfFieldConfig(p) ==
    LET name == p.name
        type == getAcfFieldType(p)
        cfg == [label |-> snakeCaseToWords(name), name |-> name, type |-> type]
        extra0 == EmptyObject
        extra1 == IF type = "wysiwyg"
                  THEN [tabs |-> "visual", toolbar |-> "simple",
                        media_upload |-> 0, delay |-> 1]
                  ELSE extra0
        extra2 == IF type = "true_false" THEN [ui |-> 1] ELSE extra1
        extra3 == IF type = "image" \/ type = "images"
                  THEN [return_format |-> "array", preview_size |-> "thumbnail"]
                  ELSE extra2
        extra4 == IF type = "repeater" THEN [layout |-> "row"] ELSE extra3
        extra5 == IF name = Str_valign THEN [choices |-> ValignChoices] ELSE extra4
        extra6 == IF isAlignName(name) THEN [choices |-> AlignChoices] ELSE extra5
    IN  Spread(cfg, extra6)

----------------------------------------------------------------------------
(* Direct calls of the pure functions, on every prop of a bounded set *)

Str_imageHero == <<"i","m","a","g","e","H","e","r","o">>
Str_image1 == <<"i","m","a","g","e","1">>
Str_Image == <<"I","m","a","g","e">>
Str_imag == <<"i","m","a","g">>
Str_count == <<"c","o","u","n","t">>
Str_flag == <<"f","l","a","g">>
Str_items == <<"i","t","e","m","s">>
Str_textAlign == <<"t","e","x","t","A","l","i","g","n">>
Str_String == <<"S","t","r","i","n","g">>
Str_STRING == <<"S","T","R","I","N","G">>
Str_Boolean == <<"B","o","o","l","e","a","n">>
Str_BOOLEAN == <<"B","O","O","L","E","A","N">>
Str_Number == <<"N","u","m","b","e","r">>
Str_NUMBER == <<"N","U","M","B","E","R">>
Str_Array == <<"A","r","r","a","y">>
Str_ARRAY == <<"A","R","R","A","Y">>
Str_object == <<"o","b","j","e","c","t">>
Str_Function == <<"F","u","n","c","t","i","o","n">>

\* the names that a rule of getAcfFieldType or getAcfFieldConfig tests
RuleNames ==
    { Str_image, Str_button, Str_body, Str_align, Str_halign, Str_valign,
      Str_text_align, Str_buttons, Str_images }

PropNames ==
    RuleNames \cup
    { Str_imageHero, Str_image1, Str_Image, Str_imag, Str_count, Str_flag,
      Str_items, Str_textAlign }

StringTypes == { Str_string, Str_String, Str_STRING }
BooleanTypes == { Str_boolean, Str_Boolean, Str_BOOLEAN }
NumberTypes == { Str_number, Str_Number, Str_NUMBER }
ArrayTypes == { Str_array, Str_Array, Str_ARRAY }
UnmappedTypes == { Str_object, Str_Function }

PropTypes ==
    StringTypes \cup BooleanTypes \cup NumberTypes \cup ArrayTypes
        \cup UnmappedTypes

NoProp == [name |-> <<>>, type |-> <<>>]

\* property names are identifiers in camelCase or kebab-case
NameAlphabet == {"a", "t", "A", "Z", "1", "-"}

RECURSIVE StringsUpTo(_)
StringsUpTo(n) ==
    IF n = 0 THEN { <<>> }
    ELSE LET shorter == StringsUpTo(n - 1)
         IN  shorter \cup
             { Append(s, c) : s \in { t \in shorter : Len(t) = n - 1 },
                              c \in NameAlphabet }

IdlePipeline ==
    /\ pc = "idle"
    /\ destDir = "exists"
    /\ destFile = "absent"
    /\ component = [name |-> <<>>, props |-> <<>>]
    /\ groupKey = <<>>
    /\ fields = <<>>
    /\ config = <<>>
    /\ log = <<>>
    /\ events = <<>>
    /\ before = [destDir |-> "exists", destFile |-> "absent"]

InitBuild ==
    /\ IdlePipeline
    /\ prop \in [name : PropNames, type : PropTypes]
    /\ string = <<>>
    /\ call = "none"
    /\ ret = <<>>

CallGetAcfFieldType ==
    /\ call = "none"
    /\ call' = "getAcfFieldType"
    /\ ret' = getAcfFieldType(prop)
    /\ UNCHANGED <<prop, string>>
    /\ UNCHANGED pipelineVars

CallGetAcfFieldConfig ==
    /\ call = "none"
    /\ call' = "getAcfFieldConfig"
    /\ ret' = getAcfFieldConfig(prop)
    /\ UNCHANGED <<prop, string>>
    /\ UNCHANGED pipelineVars

NextBuild == CallGetAcfFieldType \/ CallGetAcfFieldConfig

SpecBuild == InitBuild /\ [][NextBuild]_vars

InitWords ==
    /\ IdlePipeline
    /\ prop = NoProp
    /\ string \in StringsUpTo(MaxLen)
    /\ call = "none"
    /\ ret = <<>>

CallSnakeCaseToWords ==
    /\ call = "none"
    /\ call' = "snakeCaseToWords"
    /\ ret' = snakeCaseToWords(string)
    /\ UNCHANGED <<prop, string>>
    /\ UNCHANGED pipelineVars

NextWords == CallSnakeCaseToWords

SpecWords == InitWords /\ [][NextWords]_vars

----------------------------------------------------------------------------
(* parseComponent *)

Str_Callout == <<"C","a","l","l","o","u","t">>
Str_HeroBanner == <<"H","e","r","o","B","a","n","n","e","r">>

ComponentNames == { Str_Callout, Str_HeroBanner }

\* the props Vuedoc.parse may report for a component
ComponentPropNames == { Str_body, Str_imageHero, Str_align, Str_count }

ComponentPropTypes == { Str_String, Str_object }

ComponentProps == [name : ComponentPropNames, type : ComponentPropTypes]

RECURSIVE PropLists(_)
PropLists(n) ==
    IF n = 0 THEN { <<>> }
    ELSE LET shorter == PropLists(n - 1)
         IN  shorter \cup
             { Append(l, q) : l \in { t \in shorter : Len(t) = n - 1 },
                              q \in ComponentProps }

Components == [name : ComponentNames, props : PropLists(MaxProps)]

NoComponent == [name |-> <<>>, props |-> <<>>]

GroupKey_NoLowerCase(componentName) ==
    Str_group_ \o componentName \o Str__component

\* `group_${componentName.toLowerCase()}_component`
GroupKey(componentName) ==
    Str_group_ \o toLowerCase(componentName) \o Str__component

\* `${groupKey}_${prop.name}`
FieldKey(key, name) == key \o <<"_">> \o name

\* `Component: ${componentName}`
Title(componentName) == Str_Component_ \o componentName

\* colors.red(message) / colors.green(message) / console.error(err)
Message(fn, what) == [fn |-> fn, what |-> what]

Init ==
    /\ pc = "start"
    /\ destDir \in {"exists", "absent", "noparent"}
    /\ destFile \in (IF destDir = "exists" THEN {"absent", "prior"} ELSE {"absent"})
    /\ before = [destDir |-> destDir, destFile |-> destFile]
    /\ component = NoComponent
    /\ groupKey = <<>>
    /\ fields = <<>>
    /\ config = <<>>
    /\ log = <<>>
    /\ events = <<>>
    /\ prop = NoProp
    /\ string = <<>>
    /\ call = "none"
    /\ ret = <<>>

\* parseComponent(vueFile, destFolder): fs.readFile is issued
ParseComponent ==
    /\ pc = "start"
    /\ pc' = "reading"
    /\ events' = Append(events, "readFile")
    /\ UNCHANGED <<destDir, destFile, component, groupKey, fields, config, log,
                   before>>
    /\ UNCHANGED callVars

ReadFileErr_FallThrough ==
    /\ pc = "reading"
    /\ log' = Append(log, Message("showError", "read"))
    /\ events' = events \o <<"readFile:err", "parse">>
    /\ pc' = "parsing"
    /\ UNCHANGED <<destDir, destFile, component, groupKey, fields, config,
                   before>>
    /\ UNCHANGED callVars

\* readFile callback, err set: showError, nothing else
ReadFileErr ==
    /\ pc = "reading"
    /\ log' = Append(log, Message("showError", "read"))
    /\ events' = Append(events, "readFile:err")
    /\ pc' = "done"
    /\ UNCHANGED <<destDir, destFile, component, groupKey, fields, config,
                   before>>
    /\ UNCHANGED callVars

\* readFile callback, no err: Vuedoc.parse is issued
ReadFileOk ==
    /\ pc = "reading"
    /\ events' = events \o <<"readFile:ok", "parse">>
    /\ pc' = "parsing"
    /\ UNCHANGED <<destDir, destFile, component, groupKey, fields, config, log,
                   before>>
    /\ UNCHANGED callVars

\* the promise of Vuedoc.parse rejects
ParseReject ==
    /\ pc = "parsing"
    /\ events' = Append(events, "parse:err")
    /\ pc' = "rejected"
    /\ UNCHANGED <<destDir, destFile, component, groupKey, fields, config, log,
                   before>>
    /\ UNCHANGED callVars

\* .then((component) => ...: componentName, groupKey, fields = []
ParseResolve ==
    /\ pc = "parsing"
    /\ \E c \in Components :
        /\ component' = c
        /\ groupKey' = GroupKey(c.name)
    /\ fields' = <<>>
    /\ events' = Append(events, "parse:ok")
    /\ pc' = "loop"
    /\ UNCHANGED <<destDir, destFile, config, log, before>>
    /\ UNCHANGED callVars

\* one iteration of for (const prop of component.props): fields.push(...)
PushField ==
    /\ pc = "loop"
    /\ Len(fields) < Len(component.props)
    /\ LET p == component.props[Len(fields) + 1]
       IN  fields' = Append(fields,
                Spread([key |-> FieldKey(groupKey, p.name)], getAcfFieldConfig(p)))
    /\ events' = Append(events, "resolve")
    /\ UNCHANGED <<pc, destDir, destFile, component, groupKey, config, log,
                   before>>
    /\ UNCHANGED callVars

\* const config = { key, title, fields, ... }
BuildConfig ==
    /\ pc = "loop"
    /\ Len(fields) = Len(component.props)
    /\ config' = [ key |-> groupKey,
                   title |-> Title(component.name),
                   fields |-> fields,
                   label_placement |-> "left",
                   active |-> FALSE,
                   acfe_categories |-> [component |-> "component"] ]
    /\ events' = Append(events, "assemble")
    /\ pc' = "existsSync"
    /\ UNCHANGED <<destDir, destFile, component, groupKey, fields, log, before>>
    /\ UNCHANGED callVars

\* fs.existsSync(destFolder) is true: no mkdirSync
DirExists ==
    /\ pc = "existsSync"
    /\ destDir = "exists"
    /\ pc' = "writeFile"
    /\ UNCHANGED <<destDir, destFile, component, groupKey, fields, config, log,
                   events, before>>
    /\ UNCHANGED callVars

\* fs.existsSync(destFolder) is false and fs.mkdirSync succeeds
MkdirOk ==
    /\ pc = "existsSync"
    /\ destDir = "absent"
    /\ destDir' = "exists"
    /\ events' = events \o <<"mkdir", "mkdir:ok">>
    /\ pc' = "writeFile"
    /\ UNCHANGED <<destFile, component, groupKey, fields, config, log, before>>
    /\ UNCHANGED callVars

\* fs.existsSync(destFolder) is false and fs.mkdirSync throws (no parent)
MkdirThrow ==
    /\ pc = "existsSync"
    /\ destDir = "noparent"
    /\ events' = events \o <<"mkdir", "mkdir:err">>
    /\ pc' = "thrown"
    /\ UNCHANGED <<destDir, destFile, component, groupKey, fields, config, log,
                   before>>
    /\ UNCHANGED callVars

CatchHandler_Missing ==
    /\ pc \in {"rejected", "thrown"}
    /\ pc' = "done"
    /\ UNCHANGED <<destDir, destFile, component, groupKey, fields, config, log,
                   events, before>>
    /\ UNCHANGED callVars

\* .catch((err) => showError(err))
CatchHandler ==
    /\ pc \in {"rejected", "thrown"}
    /\ log' = Append(log, Message("showError",
                                  IF pc = "rejected" THEN "parse" ELSE "exception"))
    /\ pc' = "done"
    /\ UNCHANGED <<destDir, destFile, component, groupKey, fields, config,
                   events, before>>
    /\ UNCHANGED callVars

\* jsonfile.writeFile(filename, config, { spaces: 2 }, callback) is issued
WriteFile ==
    /\ pc = "writeFile"
    /\ events' = Append(events, "writeFile")
    /\ pc' = "writing"
    /\ UNCHANGED <<destDir, destFile, component, groupKey, fields, config, log,
                   before>>
    /\ UNCHANGED callVars

\* writeFile callback, no err: the file holds the document
WriteOk ==
    /\ pc = "writing"
    /\ destFile' = "complete"
    /\ log' = Append(log, Message("console.log", "created"))
    /\ events' = Append(events, "writeFile:ok")
    /\ pc' = "done"
    /\ UNCHANGED <<destDir, component, groupKey, fields, config, before>>
    /\ UNCHANGED callVars

\* writeFile callback, err set: console.error(err). The writer failed before
\* it opened the file (the path is untouched), after it truncated the file
\* and while it wrote (the path holds a part of the text), or after the last
\* byte (the path holds the whole text); the callback does not touch the path.
WriteErr ==
    /\ pc = "writing"
    /\ \E left \in {destFile, "partial", "complete"} : destFile' = left
    /\ log' = Append(log, Message("console.error", "write"))
    /\ events' = Append(events, "writeFile:err")
    /\ pc' = "done"
    /\ UNCHANGED <<destDir, component, groupKey, fields, config, before>>
    /\ UNCHANGED callVars

Next ==
    \/ ParseComponent
    \/ ReadFileErr
    \/ ReadFileOk
    \/ ParseReject
    \/ ParseResolve
    \/ PushField
    \/ BuildConfig
    \/ DirExists
    \/ MkdirOk
    \/ MkdirThrow
    \/ CatchHandler
    \/ WriteFile
    \/ WriteOk
    \/ WriteErr

Spec == Init /\ [][Next]_vars

----------------------------------------------------------------------------
(* Claims about getAcfFieldType and getAcfFieldConfig (SpecBuild) *)

\* C1: every prop whose name starts with "image" resolves to image, whatever
\* its declared type is.
C1_ImagePrefixResolvesToImage ==
    (call = "getAcfFieldType" /\ startsWith(prop.name, Str_image))
        => ret = "image"

C1_Witness ==
    /\ call = "getAcfFieldType"
    /\ prop.name = Str_imageHero
    /\ prop.type = Str_object
    /\ ret = "image"

C2_HasImagePrefix(name) ==
    /\ Len(name) >= 5
    /\ <<name[1], name[2], name[3], name[4], name[5]>> = <<"i","m","a","g","e">>

\* what C2 expects of a name that no name rule covers
C2_TableEntry(type) ==
    IF type \in StringTypes THEN "text"
    ELSE IF type \in BooleanTypes THEN "true_false"
    ELSE IF type \in NumberTypes THEN "number"
    ELSE "repeater"

\* C2: name rules win over the type table: button -> acfe_advanced_link,
\* body -> wysiwyg, align/halign/valign/text-align -> button_group,
\* buttons -> repeater, for every declared type; any other name that does not
\* start with "image" gets the table entry of its type, compared without
\* regard to case.
C2_NameRulesBeforeTypeTable ==
    call = "getAcfFieldType" =>
        /\ prop.name = Str_button => ret = "acfe_advanced_link"
        /\ prop.name = Str_body => ret = "wysiwyg"
        /\ prop.name \in {Str_align, Str_halign, Str_valign, Str_text_align}
               => ret = "button_group"
        /\ prop.name = Str_buttons => ret = "repeater"
        /\ ( /\ prop.name \notin {Str_button, Str_body, Str_align, Str_halign,
                                  Str_valign, Str_text_align, Str_buttons}
             /\ ~C2_HasImagePrefix(prop.name)
             /\ prop.type \notin UnmappedTypes )
               => ret = C2_TableEntry(prop.type)

C2_Witness ==
    /\ call = "getAcfFieldType"
    /\ prop.name = Str_count
    /\ prop.type = Str_STRING
    /\ ret = "text"

\* C3: a prop named "images" resolves to gallery and its field config carries
\* return_format = "array" and preview_size = "thumbnail".
C3_ImagesIsGallery ==
    (call = "getAcfFieldConfig" /\ prop.name = Str_images) =>
        /\ ret.type = "gallery"
        /\ {"return_format", "preview_size"} \subseteq DOMAIN ret
        /\ ret.return_format = "array"
        /\ ret.preview_size = "thumbnail"

\* C5: the choices rules replace the type-based settings wholesale: valign
\* and align/halign/text-align give a button_group whose keys are exactly
\* label, name, type, choices, with the Top/Center/Bottom and the
\* Left/Center/Right choices respectively.
C5_ChoicesReplaceAuxiliary ==
    call = "getAcfFieldConfig" =>
        /\ prop.name = Str_valign =>
            /\ DOMAIN ret = {"label", "name", "type", "choices"}
            /\ ret.type = "button_group"
            /\ ret.choices =
                 [start |-> "Top", center |-> "Center", end |-> "Bottom"]
        /\ prop.name \in {Str_align, Str_halign, Str_text_align} =>
            /\ DOMAIN ret = {"label", "name", "type", "choices"}
            /\ ret.type = "button_group"
            /\ ret.choices =
                 [left |-> "Left", center |-> "Center", right |-> "Right"]

C5_Witness ==
    /\ call = "getAcfFieldConfig"
    /\ prop.name = Str_halign
    /\ prop.type = Str_Boolean
    /\ "choices" \in DOMAIN ret
    /\ ret.choices.left = "Left"

----------------------------------------------------------------------------
(* Claim about snakeCaseToWords (SpecWords) *)

C7_IsLowerOrDigit(c) ==
    c \in {"a","b","c","d","e","f","g","h","i","j","k","l","m","n","o","p",
           "q","r","s","t","u","v","w","x","y","z",
           "0","1","2","3","4","5","6","7","8","9"}

C7_IsUpper(c) ==
    c \in {"A","B","C","D","E","F","G","H","I","J","K","L","M","N","O","P",
           "Q","R","S","T","U","V","W","X","Y","Z"}

\* the name with its first character capitalized
C7_Capitalized(s) ==
    IF s = <<>> THEN s ELSE <<toUpperCaseChar(s[1])>> \o Tail(s)

\* position i of s is a lowercase letter or digit followed by an uppercase one
C7_Boundary(s, i) ==
    /\ i < Len(s)
    /\ C7_IsLowerOrDigit(s[i])
    /\ C7_IsUpper(s[i + 1])

\* number of boundaries of s strictly before position i
C7_BoundariesBefore(s, i) ==
    Cardinality({ j \in 1..(i - 1) : C7_Boundary(s, j) })

\* C7: the label is the capitalized name with exactly one space after every
\* character that is a lowercase letter or digit followed by an uppercase
\* letter, and nothing else changed: hyphens stay, no two spaces are
\* adjacent, and dropping the spaces gives the capitalized name back.
C7_LabelIsCapitalizedAndSplit ==
    call = "snakeCaseToWords" =>
        LET cap == C7_Capitalized(string)
            n == Len(cap)
        IN  /\ Len(ret) = n + C7_BoundariesBefore(cap, n + 1)
            /\ \A i \in 1..n :
                 /\ ret[i + C7_BoundariesBefore(cap, i)] = cap[i]
                 /\ C7_Boundary(cap, i)
                      => ret[i + C7_BoundariesBefore(cap, i) + 1] = " "
            /\ SelectSeq(ret, LAMBDA c : c # " ") = cap
            /\ \A k \in 1..(Len(ret) - 1) : ~(ret[k] = " " /\ ret[k + 1] = " ")
            /\ Cardinality({ k \in 1..Len(ret) : ret[k] = "-" })
                 = Cardinality({ k \in 1..Len(string) : string[k] = "-" })

C7_Witness ==
    /\ call = "snakeCaseToWords"
    /\ string = <<"t", "A", "1", "Z">>
    /\ ret = <<"T", "A", "1", " ", "Z">>

----------------------------------------------------------------------------
(* Claims about parseComponent (Spec) *)

Occurs(e) == \E i \in 1..Len(events) : events[i] = e

\* every occurrence of a is preceded by an occurrence of b
Precedes(b, a) ==
    \A j \in 1..Len(events) :
        events[j] = a => \E i \in 1..(j - 1) : events[i] = b

Count(e) == Cardinality({ i \in 1..Len(events) : events[i] = e })

\* C4: a prop that matches no name rule and whose type has no table entry
\* ends in an error: no field with an undefined type is ever put in the
\* fields list, and no document holding such a field is written.
C4_NoUndefinedFieldType ==
    /\ \A i \in 1..Len(fields) : fields[i].type # Undefined
    /\ destFile = "complete" =>
           \A i \in 1..Len(config.fields) : config.fields[i].type # Undefined

C6_Lowercase(name) ==
    IF name = <<"C","a","l","l","o","u","t">>
    THEN <<"c","a","l","l","o","u","t">>
    ELSE <<"h","e","r","o","b","a","n","n","e","r">>

C6_DistinctNames(props) ==
    \A i, j \in 1..Len(props) : i # j => props[i].name # props[j].name

\* C6: the assembled document has key group_<lowercase name>_component, title
\* "Component: <name>" with the name's casing kept, and one field per prop in
\* declaration order, field i carrying the i-th prop's name and the key
\* <group key>_<name>; distinct prop names give distinct field keys.
C6_AssembledDocument ==
    config # <<>> =>
        LET N == component.name
            props == component.props
            key == <<"g","r","o","u","p","_">> \o C6_Lowercase(N)
                       \o <<"_","c","o","m","p","o","n","e","n","t">>
        IN  /\ config.key = key
            /\ config.title = <<"C","o","m","p","o","n","e","n","t",":"," ">> \o N
            /\ Len(config.fields) = Len(props)
            /\ \A i \in 1..Len(props) :
                 /\ config.fields[i].name = props[i].name
                 /\ config.fields[i].key = key \o <<"_">> \o props[i].name
            /\ C6_DistinctNames(props) =>
                 \A i, j \in 1..Len(props) :
                     i # j => config.fields[i].key # config.fields[j].key

C6_Witness ==
    /\ config # <<>>
    /\ component.name = Str_HeroBanner
    /\ Len(component.props) = 2
    /\ component.props[1].name = Str_body
    /\ component.props[2].name = Str_align
    /\ config.fields[2].name = Str_align
    /\ destFile = "complete"

\* C8: the stages run in the order read, metadata parse, resolve/build/
\* assemble, directory creation, write: resolution only after a successful
\* read and parse, the write only after the whole document is assembled, and
\* a failed read or a failed parse is reported and ends the run with no prop
\* resolved, no directory created and no file written.
C8_StagesInOrder ==
    /\ Precedes("readFile:ok", "parse")
    /\ Precedes("parse:ok", "resolve")
    /\ Precedes("parse:ok", "assemble")
    /\ Precedes("assemble", "mkdir")
    /\ Precedes("assemble", "writeFile")
    /\ Occurs("mkdir") => Precedes("mkdir", "writeFile")
    /\ Occurs("assemble") =>
           /\ Count("resolve") = Len(component.props)
           /\ Len(fields) = Len(component.props)
           /\ events[Len(events)] # "resolve"
    /\ Occurs("writeFile") => config # <<>> /\ config.fields = fields
    /\ (Occurs("readFile:err") \/ Occurs("parse:err")) =>
           /\ ~Occurs("resolve") /\ ~Occurs("assemble")
           /\ ~Occurs("mkdir") /\ ~Occurs("writeFile")
           /\ fields = <<>> /\ config = <<>>
           /\ destDir = before.destDir /\ destFile = before.destFile
           /\ pc \in {"rejected", "done"}
           /\ pc = "done" =>
                  /\ Len(log) = 1
                  /\ log[1].fn = "showError"
                  /\ log[1].what =
                         (IF Occurs("readFile:err") THEN "read" ELSE "parse")

C8_Witness ==
    /\ pc = "done"
    /\ Occurs("parse:err")
    /\ log = <<[fn |-> "showError", what |-> "parse"]>>

\* C9: when the write fails, no partial file is left at the destination path:
\* it holds the complete document or is as it was before the run.
C9_NoPartialFileOnWriteFailure ==
    (pc = "done" /\ Occurs("writeFile:err")) =>
        destFile \in {"complete", before.destFile}

\* C10: the directory is created if and only if it does not exist, and before
\* the write starts; a failed creation is reported as a message, no write is
\* attempted and the exception is caught; every finished run has reported
\* exactly one outcome, and at most one file is written.
C10_DirectoryAndSingleOutcome ==
    /\ Occurs("mkdir") => before.destDir # "exists"
    /\ (pc \in {"writeFile", "writing", "thrown"} \/ Occurs("writeFile")
            \/ Occurs("mkdir:err"))
           => (Occurs("mkdir") <=> before.destDir # "exists")
    /\ Occurs("writeFile") =>
           /\ destDir = "exists"
           /\ Occurs("mkdir") => Precedes("mkdir:ok", "writeFile")
    /\ Occurs("mkdir:err") =>
           /\ ~Occurs("writeFile")
           /\ destFile = before.destFile
           /\ pc \in {"thrown", "done"}
           /\ pc = "done" => log = <<[fn |-> "showError", what |-> "exception"]>>
    /\ Len(log) <= 1
    /\ pc = "done" =>
           /\ Len(log) = 1
           /\ log[1].fn = "console.log" <=> Occurs("writeFile:ok")
    /\ Count("writeFile") <= 1
    /\ Count("mkdir") <= 1

C10_Witness ==
    /\ pc = "done"
    /\ before.destDir = "noparent"
    /\ Occurs("mkdir:err")
    /\ Len(log) = 1

====
